---- MODULE Spec2Model ----
(***************************************************************************)
(* Model of src/misc.rs of debrepbuild: pool placement (pool, mv_to_pool,  *)
(* cp_to_pool), the .deb locator (walk_debs, match_deb), archive           *)
(* extraction (extract, unzip, untar) and mirroring (rsync).               *)
(*                                                                         *)
(* Rust strings are modelled as sequences of one-character strings, so     *)
(* that find, rfind, ends_with and slicing are computed as the code        *)
(* computes them.  Rust indexes are 0-based, TLA+ sequences 1-based; the   *)
(* operators below take and return Rust (0-based) indexes.  The alphabet   *)
(* is ASCII, so every byte index is a character boundary.                  *)
(***************************************************************************)
EXTENDS Integers, Sequences, FiniteSets, TLC

VARIABLES
    run,        \* which entry point the caller exercises in this behaviour
    \* ---- pool(path, archive, action) ----
    batch,      \* the entries path.read_dir() yields, in the order it yields them
    archive,    \* the archive argument
    policy,     \* "mv" (mv_to_pool) or "cp" (cp_to_pool)
    idx,        \* position of the for loop in batch (1-based, next entry)
    status,     \* "running", "ok" (Ok(())), "err" (Err returned), "panic"
    srcFiles,   \* regular files of the source directory: set of [name, content]
    poolFiles,  \* files under repo/pool: set of [path, content]
    poolDirs,   \* directories fs::create_dir_all has created
    calls,      \* every invocation of action: sequence of [name, content, dst, ok]
    \* ---- walk_debs(path) / match_deb(entry, packages) ----
    tree,       \* the directory tree walked: set of [path, kind]
    stack,      \* entries WalkDir has still to visit
    yielded,    \* entries the iterator has yielded so far: set of [path, kind]
    wanted,     \* the packages argument of match_deb
    matched,    \* results of match_deb: set of [path, res, pos]
    \* ---- extract(src, dst) / rsync(src, dst) ----
    arcName,    \* file name of the archive handed to extract
    arcEntries, \* paths of the files packed in the archive
    arcInDst,   \* whether the archive file lies inside dst
    arcPresent, \* whether the archive file still exists
    dstKind,    \* "absent", "file" or "dir"
    dstFiles,   \* contents of dst when it is a directory
    opStatus,   \* result of the last extract / rsync: "none", "ok", "err", "panic"
    okRuns,     \* successful extract calls in a row since dst was last touched
    prevFiles,  \* dst contents left by the previous successful extract
    srcKind,    \* rsync: kind of src ("absent", "file", "dir")
    srcKind0,   \* rsync: kind of src when rsync was called
    mkdirs      \* rsync: paths rsync itself handed to fs::create_dir_all

vars == <<run, batch, archive, policy, idx, status, srcFiles, poolFiles, poolDirs,
          calls, tree, stack, yielded, wanted, matched, arcName, arcEntries, arcInDst,
          arcPresent, dstKind, dstFiles, opStatus, okRuns, prevFiles, srcKind,
          srcKind0, mkdirs>>

poolVars == <<batch, archive, policy, idx, status, srcFiles, poolFiles, poolDirs, calls>>
walkVars == <<tree, stack, yielded, wanted, matched>>
opsVars  == <<arcName, arcEntries, arcInDst, arcPresent, dstKind, dstFiles, opStatus, okRuns,
              prevFiles, srcKind, srcKind0, mkdirs>>

----------------------------------------------------------------------------
(* Bounds of the model. *)

\* Largest number of entries in the source directory handed to pool.
MaxBatch == 2

\* Largest number of successful extract calls in a row that is counted.
MaxRuns == 2

----------------------------------------------------------------------------
(* str primitives, as the Rust standard library computes them. *)

None == -1

\* str::find(c): 0-based index of the first occurrence, None when absent.
Find(s, c) ==
    IF \E i \in 1..Len(s) : s[i] = c
    THEN (CHOOSE i \in 1..Len(s) : s[i] = c /\ \A j \in 1..(i - 1) : s[j] # c) - 1
    ELSE None

\* str::rfind(c): 0-based index of the last occurrence, None when absent.
RFind(s, c) ==
    IF \E i \in 1..Len(s) : s[i] = c
    THEN (CHOOSE i \in 1..Len(s) : s[i] = c /\ \A j \in (i + 1)..Len(s) : s[j] # c) - 1
    ELSE None

\* Option::unwrap_or(0)
UnwrapOr0(o) == IF o = None THEN 0 ELSE o

\* str::ends_with(suffix)
EndsWith(s, suf) ==
    /\ Len(suf) <= Len(s)
    /\ SubSeq(s, Len(s) - Len(suf) + 1, Len(s)) = suf

\* &s[a..b] is in range (otherwise the slice panics)
SliceOk(s, a, b) == 0 <= a /\ a <= b /\ b <= Len(s)

\* &s[a..b]
Slice(s, a, b) == SubSeq(s, a + 1, b)

\* Path::file_stem: the name before its last '.', the whole name when it has
\* no '.' or when its only '.' is its first character.
FileStem(name) ==
    LET d == RFind(name, ".") IN
    IF d = None \/ d = 0 THEN name ELSE Slice(name, 0, d)

\* [a, b, ...].concat()
Concat(parts) ==
    LET RECURSIVE Cat(_)
        Cat(k) == IF k > Len(parts) THEN <<>> ELSE parts[k] \o Cat(k + 1)
    IN Cat(1)

----------------------------------------------------------------------------
(* String literals of the source. *)

Slash       == <<"/">>
DotDeb      == <<".", "d", "e", "b">>
ExtDsc      == <<"d", "s", "c">>
ExtTarXz    == <<"t", "a", "r", ".", "x", "z">>
DotZip      == <<".", "z", "i", "p">>
DotTarGz    == <<".", "t", "a", "r", ".", "g", "z">>
DotTarXz    == <<".", "t", "a", "r", ".", "x", "z">>
Dbgsym      == <<"-", "d", "b", "g", "s", "y", "m">>
DbgsymLen   == 7
RepoPool    == <<"r", "e", "p", "o", "/", "p", "o", "o", "l", "/">>
MainSource  == <<"/", "m", "a", "i", "n", "/", "s", "o", "u", "r", "c", "e", "/">>
MainBinary  == <<"/", "m", "a", "i", "n", "/", "b", "i", "n", "a", "r", "y", "-">>

----------------------------------------------------------------------------
(* pool: the destination directory of one file (lines 158-174).  The result *)
(* is [panic |-> TRUE] when a slice of the computation is out of range.     *)

IsSource(filename) == EndsWith(filename, ExtDsc) \/ EndsWith(filename, ExtTarXz)

\* Mutant: without '_' the whole file name is the package (unwrap_or(len)).
PackageOf_WholeName(filename) ==
    Slice(filename, 0, IF Find(filename, "_") = None THEN Len(filename)
                       ELSE Find(filename, "_"))

\* let mut package = &filename[..filename.find('_').unwrap_or(0)];
PackageOf(filename) == Slice(filename, 0, UnwrapOr0(Find(filename, "_")))

\* Mutant: the -dbgsym suffix is kept.
StripDbgsym_Kept(package) == package

\* if package.ends_with("-dbgsym") { package = &package[..package.len() - 7]; }
StripDbgsym(package) ==
    IF EndsWith(package, Dbgsym)
    THEN Slice(package, 0, Len(package) - DbgsymLen)
    ELSE package

\* Mutant: the architecture taken after the first '_' instead of the last.
ArchOf_First(filestem) ==
    Slice(filestem, UnwrapOr0(Find(filestem, "_")) + 1, Len(filestem))

\* let arch = &filestem[filestem.rfind('_').unwrap_or(0) + 1..];
ArchOf(filestem) == Slice(filestem, UnwrapOr0(RFind(filestem, "_")) + 1, Len(filestem))

ArchOk(filestem) ==
    SliceOk(filestem, UnwrapOr0(RFind(filestem, "_")) + 1, Len(filestem))

SourceDestination(ar, package) ==
    Concat(<<RepoPool, ar, MainSource, Slice(package, 0, 1), Slash, package>>)

BinaryDestination(ar, cpu, package) ==
    Concat(<<RepoPool, ar, MainBinary, cpu, Slash, Slice(package, 0, 1), Slash, package>>)

\* Mutant: an empty package gets an empty bucket instead of a panic
\* (package.get(0..1).unwrap_or("")).
Destination_EmptyBucket(ar, filename, filestem) ==
    LET package == IF IsSource(filename) THEN PackageOf(filename)
                   ELSE StripDbgsym(PackageOf(filename))
        bucket == IF package = <<>> THEN <<>> ELSE <<package[1]>>
    IN [panic |-> FALSE,
        dir |-> IF IsSource(filename)
                THEN Concat(<<RepoPool, ar, MainSource, bucket, Slash, package>>)
                ELSE Concat(<<RepoPool, ar, MainBinary, ArchOf(filestem), Slash,
                              bucket, Slash, package>>)]

Destination(ar, filename, filestem) ==
    LET package == PackageOf(filename) IN
    IF IsSource(filename)
    THEN IF SliceOk(package, 0, 1)
         THEN [panic |-> FALSE, dir |-> SourceDestination(ar, package)]
         ELSE [panic |-> TRUE]
    ELSE LET stripped == StripDbgsym(package) IN
         IF ArchOk(filestem) /\ SliceOk(stripped, 0, 1)
         THEN [panic |-> FALSE,
               dir |-> BinaryDestination(ar, ArchOf(filestem), stripped)]
         ELSE [panic |-> TRUE]

\* destination.join(filename)
Join(dir, filename) == dir \o Slash \o filename

----------------------------------------------------------------------------
(* The source directories pool is run on. *)

Us     == <<"_">>
PkgA   == <<"a">>
PkgBc  == <<"b", "c">>
Ver    == <<"1", ".", "0">>
All    == <<"a", "l", "l">>
Amd64  == <<"a", "m", "d", "6", "4">>
DotDsc == <<".", "d", "s", "c">>
DotOrigTarXz == <<".", "o", "r", "i", "g">> \o DotTarXz

Packages == {PkgA, PkgBc, PkgBc \o Dbgsym}
Versions == {Ver}
Arches   == {All, Amd64}
SourceExts == {DotDsc, DotOrigTarXz}

BinaryName(P, V, A) == Concat(<<P, Us, V, Us, A, DotDeb>>)
SourceName(P, V, X) == Concat(<<P, Us, V, X>>)

BinaryNames == {BinaryName(P, V, A) : P \in Packages, V \in Versions, A \in Arches}
SourceNames == {SourceName(P, V, X) : P \in Packages, V \in Versions, X \in SourceExts}

\* Names outside the Debian convention: no '_' at all, or an empty package.
NoUnderscoreNames == {PkgBc \o DotDeb, <<"R", "E", "A", "D", "M", "E">>}
EmptyPackageNames == {BinaryName(<<>>, Ver, All), BinaryName(Dbgsym, Ver, All),
                      SourceName(<<>>, Ver, DotDsc)}

FileNames == BinaryNames \cup SourceNames \cup NoUnderscoreNames \cup EmptyPackageNames

\* A directory entry of the source directory.  kind "nontext" is a regular
\* file whose name is not valid UTF-8 (to_str() gives None).
DirEntries ==
    {[name |-> n, kind |-> "file"] : n \in FileNames}
    \cup {[name |-> <<"s", "u", "b">>, kind |-> "dir"],
          [name |-> <<"?">>, kind |-> "nontext"]}

Archives == {<<"s", "t", "a", "b", "l", "e">>, <<"x", "/", "y">>}

Batches ==
    {b \in UNION {[1..n -> DirEntries] : n \in 0..MaxBatch} :
        \A i, j \in 1..Len(b) : i # j => b[i].name # b[j].name}

\* Content of the i-th file of the source directory.
ContentOf(i) == i

----------------------------------------------------------------------------
(* The move and copy actions (lines 138-144) on the modelled file system.  *)

WriteFile(pf, dst, content) ==
    {f \in pf : f.path # dst} \cup {[path |-> dst, content |-> content]}

\* Mutant: the move leaves the source file behind.
Rename_KeepsSource(sf, pf, name, content, dst) ==
    [src |-> sf, pool |-> WriteFile(pf, dst, content)]

\* fs::rename(src, dst)
Rename(sf, pf, name, content, dst) ==
    [src |-> sf \ {[name |-> name, content |-> content]},
     pool |-> WriteFile(pf, dst, content)]

\* fs::copy(src, dst).map(|_| ())
Copy(sf, pf, name, content, dst) ==
    [src |-> sf, pool |-> WriteFile(pf, dst, content)]

Action(pol, sf, pf, name, content, dst) ==
    IF pol = "mv" THEN Rename(sf, pf, name, content, dst)
    ELSE Copy(sf, pf, name, content, dst)

\* Mutant: the error is dropped and the loop goes on.
Propagate_Swallowed == "running"

\* The ? operator on an Err: the function returns the error.
Propagate == "err"

----------------------------------------------------------------------------
(* pool (lines 146-183), one iteration of the for loop per step.           *)

Entry == batch[idx]

InLoop == run = "pool" /\ status = "running" /\ idx <= Len(batch)

EntryDestination == Destination(archive, Entry.name, FileStem(Entry.name))

\* let entry = entry?;  (also path.read_dir()? before the first entry)
pool_entry_err ==
    /\ run = "pool" /\ status = "running"
    /\ status' = Propagate
    /\ UNCHANGED <<run, batch, archive, policy, idx, srcFiles, poolFiles, poolDirs, calls>>
    /\ UNCHANGED <<walkVars, opsVars>>

\* if path.is_dir() { continue; }
pool_skip_dir ==
    /\ InLoop /\ Entry.kind = "dir"
    /\ idx' = idx + 1
    /\ UNCHANGED <<run, batch, archive, policy, status, srcFiles, poolFiles, poolDirs, calls>>
    /\ UNCHANGED <<walkVars, opsVars>>

\* if let (Some(filename), Some(filestem)) = ... fails: nothing is done
pool_skip_nontext ==
    /\ InLoop /\ Entry.kind = "nontext"
    /\ idx' = idx + 1
    /\ UNCHANGED <<run, batch, archive, policy, status, srcFiles, poolFiles, poolDirs, calls>>
    /\ UNCHANGED <<walkVars, opsVars>>

\* a slice of the destination computation is out of range
pool_panic ==
    /\ InLoop /\ Entry.kind = "file"
    /\ EntryDestination.panic
    /\ status' = "panic"
    /\ UNCHANGED <<run, batch, archive, policy, idx, srcFiles, poolFiles, poolDirs, calls>>
    /\ UNCHANGED <<walkVars, opsVars>>

\* fs::create_dir_all(&destination)? fails
pool_mkdir_err ==
    /\ InLoop /\ Entry.kind = "file"
    /\ ~EntryDestination.panic
    /\ status' = Propagate
    /\ UNCHANGED <<run, batch, archive, policy, idx, srcFiles, poolFiles, poolDirs, calls>>
    /\ UNCHANGED <<walkVars, opsVars>>

\* the directory is created, action(&path, &destination.join(filename))? fails
pool_action_err ==
    /\ InLoop /\ Entry.kind = "file"
    /\ ~EntryDestination.panic
    /\ poolDirs' = poolDirs \cup {EntryDestination.dir}
    /\ calls' = Append(calls, [name |-> Entry.name, content |-> ContentOf(idx),
                               dst |-> Join(EntryDestination.dir, Entry.name),
                               ok |-> FALSE])
    /\ status' = Propagate
    /\ UNCHANGED <<run, batch, archive, policy, idx, srcFiles, poolFiles>>
    /\ UNCHANGED <<walkVars, opsVars>>

\* the directory is created and the action succeeds
pool_place ==
    /\ InLoop /\ Entry.kind = "file"
    /\ ~EntryDestination.panic
    /\ LET dst == Join(EntryDestination.dir, Entry.name)
           res == Action(policy, srcFiles, poolFiles, Entry.name, ContentOf(idx), dst)
       IN /\ poolDirs' = poolDirs \cup {EntryDestination.dir}
          /\ calls' = Append(calls, [name |-> Entry.name, content |-> ContentOf(idx),
                                     dst |-> dst, ok |-> TRUE])
          /\ srcFiles' = res.src
          /\ poolFiles' = res.pool
    /\ idx' = idx + 1
    /\ UNCHANGED <<run, batch, archive, policy, status>>
    /\ UNCHANGED <<walkVars, opsVars>>

\* the loop is over: Ok(())
pool_ok ==
    /\ run = "pool" /\ status = "running" /\ idx > Len(batch)
    /\ status' = "ok"
    /\ UNCHANGED <<run, batch, archive, policy, idx, srcFiles, poolFiles, poolDirs, calls>>
    /\ UNCHANGED <<walkVars, opsVars>>

----------------------------------------------------------------------------
(* The directory trees walk_debs is run on.  A node is [path, kind]: path  *)
(* is the sequence of names below the root, kind is "dir", "file" or       *)
(* "nontext" (a regular file whose name is not valid UTF-8).               *)

Foo == <<"f", "o", "o">>
Bar == <<"b", "a", "r">>
Baz == <<"b", "a", "z">>
DirA == <<"a">>
DirDDeb == <<"d">> \o DotDeb
BDeb == <<"b">> \o DotDeb
XDeb == <<"x">> \o DotDeb
CTxt == <<"c", ".", "t", "x", "t">>
RootText == <<"r">>

Root == [path |-> <<>>, kind |-> "dir"]

Nodes ==
    {[path |-> <<DirA>>, kind |-> "dir"],
     [path |-> <<DirA, BDeb>>, kind |-> "file"],
     [path |-> <<DirA, CTxt>>, kind |-> "file"],
     [path |-> <<DirA, BinaryName(Bar, Ver, Amd64)>>, kind |-> "file"],
     [path |-> <<XDeb>>, kind |-> "file"],
     [path |-> <<BinaryName(Baz, Ver, Amd64)>>, kind |-> "file"],
     [path |-> <<DirDDeb>>, kind |-> "dir"],
     [path |-> <<DirDDeb, BinaryName(Foo, Ver, All)>>, kind |-> "file"],
     [path |-> << <<"?">> \o DotDeb >>, kind |-> "nontext"]}

Parent(p) == SubSeq(p, 1, Len(p) - 1)

Trees ==
    {t \cup {Root} : t \in
        {t \in SUBSET Nodes :
            \A n \in t : Len(n.path) > 1 =>
                [path |-> Parent(n.path), kind |-> "dir"] \in t}}

WantedLists == {<<Foo, Bar>>, <<Bar, Foo, Bar>>, <<>>}

Children(t, e) ==
    {n \in t : Len(n.path) = Len(e.path) + 1 /\ Parent(n.path) = e.path}

\* entry.file_name()
FileNameOf(e) == IF e.path = <<>> THEN RootText ELSE e.path[Len(e.path)]

\* entry.path().to_str(): the root and the names below it, joined by '/'
PathText(e) ==
    LET RECURSIVE Txt(_)
        Txt(k) == IF k = 0 THEN RootText ELSE Txt(k - 1) \o Slash \o e.path[k]
    IN Txt(Len(e.path))

----------------------------------------------------------------------------
(* walk_debs (lines 12-22): WalkDir's depth-first iterator under           *)
(* filter_entry(is_deb).  stack holds, per open directory, the entries     *)
(* still to visit; the order within a directory is the file system's.      *)

\* Mutant: directories are filtered like files.
is_deb_FilesOnly(e) ==
    IF e.kind = "nontext" THEN FALSE ELSE EndsWith(FileNameOf(e), DotDeb)

is_deb(e) ==
    IF e.kind = "dir" THEN TRUE
    ELSE IF e.kind = "nontext" THEN FALSE
    ELSE EndsWith(FileNameOf(e), DotDeb)

Walking == run = "walk" /\ stack # <<>>

\* the predicate holds: the entry is yielded, and descended into if a directory
walk_yield ==
    /\ Walking
    /\ \E e \in Head(stack) :
        /\ is_deb(e)
        /\ yielded' = yielded \cup {e}
        /\ stack' = IF e.kind = "dir"
                    THEN <<Children(tree, e)>> \o <<Head(stack) \ {e}>> \o Tail(stack)
                    ELSE <<Head(stack) \ {e}>> \o Tail(stack)
    /\ UNCHANGED <<run, tree, wanted, matched>>
    /\ UNCHANGED <<poolVars, opsVars>>

\* the predicate fails: the entry is skipped
walk_skip ==
    /\ Walking
    /\ \E e \in Head(stack) :
        /\ ~is_deb(e)
        /\ stack' = <<Head(stack) \ {e}>> \o Tail(stack)
    /\ UNCHANGED <<run, tree, yielded, wanted, matched>>
    /\ UNCHANGED <<poolVars, opsVars>>

\* the open directory is exhausted
walk_pop ==
    /\ Walking
    /\ Head(stack) = {}
    /\ stack' = Tail(stack)
    /\ UNCHANGED <<run, tree, yielded, wanted, matched>>
    /\ UNCHANGED <<poolVars, opsVars>>

----------------------------------------------------------------------------
(* match_deb (lines 24-36) *)

\* Mutant: the last occurrence instead of the first (rposition).
Position_Last(packages, package) ==
    IF \E i \in 1..Len(packages) : packages[i] = package
    THEN (CHOOSE i \in 1..Len(packages) :
            packages[i] = package /\ \A j \in (i + 1)..Len(packages) : packages[j] # package) - 1
    ELSE None

\* packages.iter().position(|x| x.as_str() == package)
Position(packages, package) ==
    IF \E i \in 1..Len(packages) : packages[i] = package
    THEN (CHOOSE i \in 1..Len(packages) :
            packages[i] = package /\ \A j \in 1..(i - 1) : packages[j] # package) - 1
    ELSE None

MatchDeb(e, packages) ==
    IF e.kind = "dir" THEN [res |-> "none"]
    ELSE IF e.kind = "nontext" THEN [res |-> "none"]
    ELSE LET name == FileNameOf(e)
             us == Find(name, "_")
         IN IF us = None THEN [res |-> "panic"]
            ELSE LET pos == Position(packages, Slice(name, 0, us))
                 IN IF pos = None THEN [res |-> "none"]
                    ELSE [res |-> "some", path |-> PathText(e), pos |-> pos]

\* the caller hands an entry the finished walk yielded to match_deb
match_deb ==
    /\ run = "walk" /\ stack = <<>>
    /\ \A m \in matched : m.result.res # "panic"
    /\ \E e \in yielded :
        matched' = {[entry |-> e, result |-> MatchDeb(e, wanted)]}
    /\ UNCHANGED <<run, tree, stack, yielded, wanted>>
    /\ UNCHANGED <<poolVars, opsVars>>

----------------------------------------------------------------------------
(* extract, unzip, untar (lines 83-136).  dst is "absent", a regular       *)
(* "file", or a "dir" holding dstFiles.  The external tools are modelled   *)
(* by what they leave in an empty destination.                             *)

Top == <<"t">>
FileF == <<"f">>
FileG == <<"g">>
Junk == <<"j">>

ArchiveNames == {<<"s">> \o DotZip, <<"s">> \o DotTarGz, <<"s">> \o DotTarXz,
                 <<"s", ".", "r", "a", "r">>}

\* Paths packed in an archive: a wrapper directory with files, and a bare file.
ArchivePaths == {<<Top, FileF>>, <<Top, FileG>>, <<FileF>>}

IsZip(filename) == EndsWith(filename, DotZip)
IsTar(filename) == EndsWith(filename, DotTarGz) \/ EndsWith(filename, DotTarXz)

\* unzip <archive> -d <dst>: every packed path below dst
UnzipOutput(entries) == entries

\* tar -xvf <archive> -C <dst> --strip-components 1: every packed path with
\* its first component dropped; paths with a single component are not extracted
UntarOutput(entries) == {Tail(e) : e \in {x \in entries : Len(x) > 1}}

ToolOutput(filename, entries) ==
    IF IsZip(filename) THEN UnzipOutput(entries) ELSE UntarOutput(entries)

\* Mutant: dst is not removed first, the extraction is additive.
Recreated_Additive(files) == files

\* if dst.exists() { fs::remove_dir_all(dst)?; } fs::create_dir_all(dst): what
\* is left of the old contents of dst when the tool starts
Recreated(files) == {}

Extracting == run = "extract" /\ opStatus # "panic" /\ okRuns < MaxRuns

Dispatched == IsZip(arcName) \/ IsTar(arcName)

\* unimplemented!()
extract_unimplemented ==
    /\ Extracting /\ ~Dispatched
    /\ opStatus' = "panic"
    /\ okRuns' = 0
    /\ UNCHANGED <<run, arcName, arcEntries, arcInDst, arcPresent, dstKind, dstFiles,
                   prevFiles, srcKind, srcKind0, mkdirs>>
    /\ UNCHANGED <<poolVars, walkVars>>

\* fs::remove_dir_all(dst)? fails: always on a regular file, possibly on a
\* directory, of which any part may already be gone
extract_remove_err ==
    /\ Extracting /\ Dispatched
    /\ dstKind # "absent"
    /\ \E left \in SUBSET dstFiles :
        /\ dstKind = "file" => left = dstFiles
        /\ dstFiles' = left
    /\ opStatus' = "err"
    /\ okRuns' = 0
    /\ UNCHANGED <<run, arcName, arcEntries, arcInDst, arcPresent, dstKind,
                   prevFiles, srcKind, srcKind0, mkdirs>>
    /\ UNCHANGED <<poolVars, walkVars>>

\* dst is gone, fs::create_dir_all(dst) fails
extract_mkdir_err ==
    /\ Extracting /\ Dispatched
    /\ dstKind # "file"
    /\ dstKind' = "absent"
    /\ dstFiles' = {}
    /\ arcPresent' = (arcPresent /\ ~arcInDst)
    /\ opStatus' = "err"
    /\ okRuns' = 0
    /\ UNCHANGED <<run, arcName, arcEntries, arcInDst, prevFiles, srcKind, srcKind0, mkdirs>>
    /\ UNCHANGED <<poolVars, walkVars>>

\* dst is recreated, the tool exits with a non-zero status, leaving any part
\* of its output (none when the archive is gone)
extract_tool_err ==
    /\ Extracting /\ Dispatched
    /\ dstKind # "file"
    /\ dstKind' = "dir"
    /\ arcPresent' = (arcPresent /\ ~(arcInDst /\ dstKind = "dir"))
    /\ \E part \in SUBSET ToolOutput(arcName, arcEntries) :
        /\ ~arcPresent' => part = {}
        /\ dstFiles' = Recreated(dstFiles) \cup part
    /\ opStatus' = "err"
    /\ okRuns' = 0
    /\ UNCHANGED <<run, arcName, arcEntries, arcInDst, prevFiles, srcKind, srcKind0, mkdirs>>
    /\ UNCHANGED <<poolVars, walkVars>>

\* dst is recreated, the tool exits with status 0: Ok(())
extract_ok ==
    /\ Extracting /\ Dispatched
    /\ dstKind # "file"
    /\ arcPresent /\ ~(arcInDst /\ dstKind = "dir")
    /\ dstKind' = "dir"
    /\ dstFiles' = Recreated(dstFiles) \cup ToolOutput(arcName, arcEntries)
    /\ opStatus' = "ok"
    /\ okRuns' = okRuns + 1
    /\ prevFiles' = dstFiles
    /\ UNCHANGED <<run, arcName, arcEntries, arcInDst, arcPresent, srcKind, srcKind0, mkdirs>>
    /\ UNCHANGED <<poolVars, walkVars>>

\* between two calls the pipeline writes into dst
dst_touch ==
    /\ run = "extract" /\ opStatus # "panic"
    /\ dstKind = "dir" /\ <<Junk>> \notin dstFiles
    /\ dstFiles' = dstFiles \cup {<<Junk>>}
    /\ okRuns' = 0
    /\ opStatus' = "none"
    /\ UNCHANGED <<run, arcName, arcEntries, arcInDst, arcPresent, dstKind,
                   prevFiles, srcKind, srcKind0, mkdirs>>
    /\ UNCHANGED <<poolVars, walkVars>>

----------------------------------------------------------------------------
(* rsync (lines 47-64) *)

Kinds == {"absent", "file", "dir"}

\* if src.is_dir() { fs::create_dir_all(src)?; }  (on a directory that exists
\* fs::create_dir_all returns Ok, so the ? never returns here)
CreatesSrc(kind) == kind = "dir"

\* what rsync -avz src dst leaves at dst when it exits with status 0
SyncedKind(src, dst) == IF src = "dir" \/ dst = "dir" THEN "dir" ELSE "file"

\* the tool exits with a non-zero status (always when src is missing)
rsync_tool_err ==
    /\ run = "rsync"
    /\ srcKind0' = srcKind
    /\ mkdirs' = IF CreatesSrc(srcKind) THEN {"src"} ELSE {}
    /\ opStatus' = "err"
    /\ UNCHANGED <<run, arcName, arcEntries, arcInDst, arcPresent, dstKind, dstFiles,
                   okRuns, prevFiles, srcKind>>
    /\ UNCHANGED <<poolVars, walkVars>>

\* the tool exits with status 0: Ok(())
rsync_ok ==
    /\ run = "rsync"
    /\ srcKind # "absent"
    /\ ~(srcKind = "dir" /\ dstKind = "file")
    /\ srcKind0' = srcKind
    /\ mkdirs' = IF CreatesSrc(srcKind) THEN {"src"} ELSE {}
    /\ dstKind' = SyncedKind(srcKind, dstKind)
    /\ opStatus' = "ok"
    /\ UNCHANGED <<run, arcName, arcEntries, arcInDst, arcPresent, dstFiles,
                   okRuns, prevFiles, srcKind>>
    /\ UNCHANGED <<poolVars, walkVars>>

\* between two calls the pipeline creates, replaces or removes src
src_change ==
    /\ run = "rsync"
    /\ \E k \in Kinds \ {srcKind} : srcKind' = k
    /\ UNCHANGED <<run, arcName, arcEntries, arcInDst, arcPresent, dstKind, dstFiles,
                   opStatus, okRuns, prevFiles, srcKind0, mkdirs>>
    /\ UNCHANGED <<poolVars, walkVars>>

----------------------------------------------------------------------------
(* Initial states: the caller picks an entry point and its arguments.      *)

PoolIdle ==
    /\ batch = <<>> /\ archive = <<>> /\ policy = "mv" /\ idx = 1 /\ status = "idle"
    /\ srcFiles = {} /\ poolFiles = {} /\ poolDirs = {} /\ calls = <<>>

WalkIdle ==
    /\ tree = {} /\ stack = <<>> /\ yielded = {} /\ wanted = <<>> /\ matched = {}

OpsIdle ==
    /\ arcName = <<>> /\ arcEntries = {} /\ arcInDst = FALSE /\ arcPresent = FALSE
    /\ dstKind = "absent" /\ dstFiles = {} /\ opStatus = "none" /\ okRuns = 0
    /\ prevFiles = {} /\ srcKind = "absent" /\ srcKind0 = "absent" /\ mkdirs = {}

InitPool ==
    /\ run = "pool"
    /\ batch \in Batches
    /\ archive \in Archives
    /\ policy \in {"mv", "cp"}
    /\ idx = 1
    /\ status = "running"
    /\ srcFiles = {[name |-> batch[i].name, content |-> ContentOf(i)] :
                     i \in {j \in 1..Len(batch) : batch[j].kind # "dir"}}
    /\ poolFiles = {}
    /\ poolDirs = {}
    /\ calls = <<>>
    /\ WalkIdle /\ OpsIdle

InitWalk ==
    /\ run = "walk"
    /\ tree \in Trees
    /\ stack = <<{Root}>>
    /\ yielded = {}
    /\ wanted \in WantedLists
    /\ matched = {}
    /\ PoolIdle /\ OpsIdle

InitExtract ==
    /\ run = "extract"
    /\ arcName \in ArchiveNames
    /\ arcEntries \in SUBSET ArchivePaths
    /\ arcInDst \in BOOLEAN
    /\ arcPresent = TRUE
    /\ dstKind \in (IF arcInDst THEN {"dir"} ELSE Kinds)
    /\ dstFiles \in (IF dstKind = "dir" THEN {{}, {<<Junk>>}, {<<FileF>>, <<Junk>>}} ELSE {{}})
    /\ opStatus = "none"
    /\ okRuns = 0
    /\ prevFiles = {}
    /\ srcKind = "absent" /\ srcKind0 = "absent" /\ mkdirs = {}
    /\ PoolIdle /\ WalkIdle

InitRsync ==
    /\ run = "rsync"
    /\ srcKind \in Kinds
    /\ srcKind0 = srcKind
    /\ dstKind \in Kinds
    /\ mkdirs = {}
    /\ opStatus = "none"
    /\ arcName = <<>> /\ arcEntries = {} /\ arcInDst = FALSE /\ arcPresent = FALSE
    /\ dstFiles = {} /\ okRuns = 0 /\ prevFiles = {}
    /\ PoolIdle /\ WalkIdle

Init == InitPool \/ InitWalk \/ InitExtract \/ InitRsync

Next ==
    \/ pool_entry_err \/ pool_skip_dir \/ pool_skip_nontext \/ pool_panic
    \/ pool_mkdir_err \/ pool_action_err \/ pool_place \/ pool_ok
    \/ walk_yield \/ walk_skip \/ walk_pop \/ match_deb
    \/ extract_unimplemented \/ extract_remove_err \/ extract_mkdir_err
    \/ extract_tool_err \/ extract_ok \/ dst_touch
    \/ rsync_tool_err \/ rsync_ok \/ src_change

Spec == Init /\ [][Next]_vars

----------------------------------------------------------------------------
(* Properties.  The expected paths are spelled out here, independently of  *)
(* the operators that model the code.                                      *)

TextRepoPool   == <<"r", "e", "p", "o", "/", "p", "o", "o", "l", "/">>
TextMainBinary == <<"/", "m", "a", "i", "n", "/", "b", "i", "n", "a", "r", "y", "-">>
TextMainSource == <<"/", "m", "a", "i", "n", "/", "s", "o", "u", "r", "c", "e">>

\* pool/{archive}/main/binary-A/{first character of P}/P/<filename>, under repo/
CanonicalBinary(ar, P, A, filename) ==
    TextRepoPool \o ar \o TextMainBinary \o A \o <<"/">> \o <<P[1]>> \o <<"/">> \o P
        \o <<"/">> \o filename

\* pool/{archive}/main/source/{first character of P}/P/<filename>, under repo/
CanonicalSource(ar, P, filename) ==
    TextRepoPool \o ar \o TextMainSource \o <<"/">> \o <<P[1]>> \o <<"/">> \o P
        \o <<"/">> \o filename

PlainPackages  == {PkgA, PkgBc}
DbgsymPackages == {PkgBc \o Dbgsym}

\* The package the directory is named after: P itself, or P without -dbgsym.
DirPackage(P, strip) == IF strip THEN SubSeq(P, 1, Len(P) - Len(Dbgsym)) ELSE P

CallsOf(n) == {i \in 1..Len(calls) : calls[i].name = n}

BinaryPlacedAt(Ps, strip) ==
    \A P \in Ps, V \in Versions, A \in Arches :
        \A i \in CallsOf(BinaryName(P, V, A)) :
            calls[i].dst = CanonicalBinary(archive, DirPackage(P, strip), A, BinaryName(P, V, A))

SourcePlacedAt(Ps, strip) ==
    \A P \in Ps, V \in Versions, X \in SourceExts :
        \A i \in CallsOf(SourceName(P, V, X)) :
            calls[i].dst = CanonicalSource(archive, DirPackage(P, strip), SourceName(P, V, X))


\* C1 as stated: every file P_V_A.deb that place hands to the action goes to
\* pool/{archive}/main/binary-A/{P[0]}/P/P_V_A.deb and every P_V.dsc or
\* P_V.orig.tar.xz to pool/{archive}/main/source/{P[0]}/P/<filename>, P being
\* the text before the first '_' (a package ending in -dbgsym included).
C1_Original ==
    /\ BinaryPlacedAt(Packages, FALSE)
    /\ SourcePlacedAt(Packages, FALSE)

\* C1 amended: the binary rule holds for every P that does not end in -dbgsym
\* (a binary P-dbgsym is filed under P, see C2); the source rule holds for
\* every P.
C1_CanonicalDestination ==
    /\ BinaryPlacedAt(PlainPackages, FALSE)
    /\ SourcePlacedAt(Packages, FALSE)

\* C1 witness: a binary and a source file have both been handed to the action.
C1_Witness ==
    /\ run = "pool"
    /\ \E P \in PlainPackages, V \in Versions, A \in Arches :
        CallsOf(BinaryName(P, V, A)) # {}
    /\ \E P \in Packages, V \in Versions, X \in SourceExts :
        CallsOf(SourceName(P, V, X)) # {}

\* C2 as stated: for every file whose package part ends with -dbgsym, binary
\* or source, the directory is computed from the package with -dbgsym stripped
\* and the leaf is the original file name.
C2_Original ==
    /\ BinaryPlacedAt(DbgsymPackages, TRUE)
    /\ SourcePlacedAt(DbgsymPackages, TRUE)

\* C2 amended: for every binary file whose package part ends with -dbgsym that
\* place hands to the action, bucket and package directory come from the
\* package with -dbgsym stripped and the leaf is the original file name.
C2_BinaryDbgsymStripped == BinaryPlacedAt(DbgsymPackages, TRUE)

\* C2 witness: a binary -dbgsym package has been placed.
C2_Witness ==
    \E P \in DbgsymPackages, V \in Versions, A \in Arches :
        \E i \in CallsOf(BinaryName(P, V, A)) : calls[i].ok

InSource(n) == \E f \in srcFiles : f.name = n
PoolContents(path) == {f.content : f \in {g \in poolFiles : g.path = path}}

\* C3: after a successful place every regular file with a text name has been
\* placed; with mv it is gone from the source directory and at its pool
\* destination with its content, with cp it is in both with the same content.
C3_MoveCopyPostcondition ==
    (run = "pool" /\ status = "ok") =>
        /\ \A j \in 1..Len(batch) : batch[j].kind = "file" => CallsOf(batch[j].name) # {}
        /\ \A i \in 1..Len(calls) :
            /\ calls[i].ok
            /\ PoolContents(calls[i].dst) = {calls[i].content}
            /\ policy = "mv" => ~InSource(calls[i].name)
            /\ policy = "cp" =>
                [name |-> calls[i].name, content |-> calls[i].content] \in srcFiles

\* C3 witness: a successful move of two files.
C3_Witness == run = "pool" /\ status = "ok" /\ policy = "mv" /\ Len(calls) = 2

Failed == status = "err" \/ \E i \in 1..Len(calls) : ~calls[i].ok

\* C4, no rollback: whatever was placed before a failure stays at its pool
\* destination (and, with mv, out of the source directory); no entry after the
\* failing one has a directory or a call.
C4_EarlierPlacementsStay ==
    (run = "pool" /\ Failed) =>
        /\ \A i \in 1..Len(calls) :
            /\ \E j \in 1..idx : j <= Len(batch) /\ batch[j].name = calls[i].name
            /\ calls[i].ok =>
                /\ PoolContents(calls[i].dst) = {calls[i].content}
                /\ policy = "mv" => ~InSource(calls[i].name)
        /\ Cardinality(poolDirs) <= Len(calls)

\* C4: place fails fast without rollback: once an error has occurred nothing
\* more is created, moved or copied, and the earlier placements stay.
C4_FailFast ==
    /\ []C4_EarlierPlacementsStay
    /\ [][Failed => /\ UNCHANGED <<srcFiles, poolFiles, poolDirs, calls, idx>>
                    /\ status' = "err"]_vars

\* C4 witness: the action failed on the second file after the first was placed.
C4_Witness ==
    /\ run = "pool" /\ status = "err"
    /\ Len(calls) = 2 /\ calls[1].ok /\ ~calls[2].ok

NoUnderscore(n) == \A k \in 1..Len(n) : n[k] # "_"

\* C5: a file whose name has no '_' is rejected by place and by match_deb:
\* place never gets past it, creates no directory for it and never hands it
\* to the action; match_deb does not return for it.
C5_NoUnderscoreRejected ==
    /\ \A j \in 1..Len(batch) :
        (batch[j].kind = "file" /\ NoUnderscore(batch[j].name)) =>
            /\ idx <= j
            /\ status # "ok"
            /\ CallsOf(batch[j].name) = {}
            /\ (idx = j /\ status \notin {"running", "err"}) => status = "panic"
    /\ \A d \in poolDirs : \E i \in 1..Len(calls) :
        calls[i].dst = d \o <<"/">> \o calls[i].name
    /\ \A m \in matched :
        (m.entry.kind = "file" /\ NoUnderscore(m.entry.path[Len(m.entry.path)])) =>
            m.result.res = "panic"

\* C5 witness: place stopped on a file without '_' after placing another one.
C5_Witness ==
    /\ run = "pool" /\ status = "panic"
    /\ NoUnderscore(batch[idx].name)
    /\ Len(calls) = 1 /\ calls[1].ok

\* C5, the match_deb half of the case: match_deb stopped on a file without '_'.
C5_MatchReached ==
    \E m \in matched : m.entry.kind = "file" /\ m.result.res = "panic"

HasDebSuffix(n) ==
    /\ Len(n) >= 4
    /\ n[Len(n) - 3] = "." /\ n[Len(n) - 2] = "d" /\ n[Len(n) - 1] = "e" /\ n[Len(n)] = "b"

DebFiles(t) == {n \in t : n.kind = "file" /\ HasDebSuffix(n.path[Len(n.path)])}
Directories(t) == {n \in t : n.kind = "dir"}

ExampleTree ==
    {Root, [path |-> <<DirA>>, kind |-> "dir"],
     [path |-> <<DirA, BDeb>>, kind |-> "file"],
     [path |-> <<DirA, CTxt>>, kind |-> "file"],
     [path |-> <<XDeb>>, kind |-> "file"]}

ExampleDebs ==
    {[path |-> <<DirA, BDeb>>, kind |-> "file"], [path |-> <<XDeb>>, kind |-> "file"]}

WalkDone == run = "walk" /\ stack = <<>>

\* C6 as stated: the finished walk has yielded exactly the files whose name
\* ends with .deb; no directory, the root included, is yielded.
C6_Original == WalkDone => yielded = DebFiles(tree)

\* C6 amended: the finished walk has yielded exactly the directories of the
\* tree, the root included, and the files whose (text) name ends with .deb;
\* on the example tree the files yielded are a/b.deb and x.deb.
C6_YieldsDirectoriesAndDebs ==
    /\ run = "walk" => yielded \subseteq Directories(tree) \cup DebFiles(tree)
    /\ WalkDone => yielded = Directories(tree) \cup DebFiles(tree)
    /\ (WalkDone /\ tree = ExampleTree) =>
        {n \in yielded : n.kind # "dir"} = ExampleDebs

\* C6 witness: the walk of the example tree is finished.
C6_Witness ==
    /\ WalkDone /\ tree = ExampleTree
    /\ ExampleDebs \subseteq yielded
    /\ Root \in yielded

BarEntry == [path |-> <<DirA, BinaryName(Bar, Ver, Amd64)>>, kind |-> "file"]
BazEntry == [path |-> <<BinaryName(Baz, Ver, Amd64)>>, kind |-> "file"]
FooEntry == [path |-> <<DirDDeb, BinaryName(Foo, Ver, All)>>, kind |-> "file"]

\* The full path of an entry at depth 1 or 2, as text.
FullPath(e) ==
    IF Len(e.path) = 1 THEN <<"r", "/">> \o e.path[1]
    ELSE <<"r", "/">> \o e.path[1] \o <<"/">> \o e.path[2]

FirstIndex(P) ==
    CHOOSE i \in 0..(Len(wanted) - 1) :
        wanted[i + 1] = P /\ \A j \in 0..(i - 1) : wanted[j + 1] # P

Occurs(P) == \E i \in 1..Len(wanted) : wanted[i] = P

MatchesAsClaimed(m, P) ==
    IF Occurs(P)
    THEN m.result = [res |-> "some", path |-> FullPath(m.entry), pos |-> FirstIndex(P)]
    ELSE m.result = [res |-> "none"]

\* C7: match_deb gives none for a directory; for a file P_V_A.deb it gives the
\* full path and the (first) position of P in wanted when P occurs there, and
\* none when it does not; with wanted [foo, bar], bar_1.0_amd64.deb gives
\* index 1 and baz_1.0_amd64.deb gives none.
C7_MatchDeb ==
    \A m \in matched :
        /\ m.entry.kind = "dir" => m.result = [res |-> "none"]
        /\ m.entry = BarEntry => MatchesAsClaimed(m, Bar)
        /\ m.entry = BazEntry => MatchesAsClaimed(m, Baz)
        /\ m.entry = FooEntry => MatchesAsClaimed(m, Foo)
        /\ (m.entry = BarEntry /\ wanted = <<Foo, Bar>>) =>
            (m.result.res = "some" /\ m.result.pos = 1)
        /\ (m.entry = BazEntry /\ wanted = <<Foo, Bar>>) => m.result.res = "none"

\* C7 witness: bar_1.0_amd64.deb was matched against a list naming bar twice.
C7_Witness ==
    /\ wanted = <<Bar, Foo, Bar>>
    /\ \E m \in matched : m.entry = BarEntry /\ m.result.res = "some"

\* C8: a successful extract leaves in dst exactly what the tool writes into an
\* empty directory, whatever dst held before; hence a second successful
\* extract in a row leaves what the first left.
C8_ExtractIdempotent ==
    /\ (run = "extract" /\ opStatus = "ok") =>
        /\ dstKind = "dir"
        /\ IsZip(arcName) => dstFiles = arcEntries
        /\ IsTar(arcName) =>
            dstFiles = {Tail(e) : e \in {x \in arcEntries : Len(x) > 1}}
    /\ (run = "extract" /\ okRuns >= 2) => dstFiles = prevFiles

\* C8 witness: two successful extractions in a row of a non-empty archive.
C8_Witness == run = "extract" /\ okRuns = 2 /\ dstFiles # {} /\ opStatus = "ok"

\* C10: rsync hands src to create_dir_all exactly when src is not a directory
\* when rsync is called, and never hands dst to it.
C10_CreatesMissingSrc ==
    (run = "rsync" /\ opStatus # "none") =>
        /\ ("src" \in mkdirs) <=> (srcKind0 # "dir")
        /\ "dst" \notin mkdirs

EmptyPackageFile(e) == e.kind = "file" /\ e.name \in EmptyPackageNames

\* C9 as stated: a file whose bucketing package name is empty is still given a
\* destination and placed: place does not fail on it.
C9_Original ==
    \A j \in 1..Len(batch) :
        EmptyPackageFile(batch[j]) => ~(idx = j /\ status = "panic")

\* C9 amended: when the bucketing package name is empty, place panics on the
\* bucket slice package[0..1]: it never gets past the file, creates no
\* directory for it and never hands it to the action.
C9_EmptyPackagePanics ==
    \A j \in 1..Len(batch) :
        EmptyPackageFile(batch[j]) =>
            /\ idx <= j
            /\ status # "ok"
            /\ CallsOf(batch[j].name) = {}
            /\ (idx = j /\ status \notin {"running", "err"}) => status = "panic"

\* C9 witness: place panicked on a binary whose package is exactly -dbgsym.
C9_Witness ==
    /\ run = "pool" /\ status = "panic"
    /\ batch[idx].name = BinaryName(Dbgsym, Ver, All)

====
